---- MODULE Spec2Model ----
(***************************************************************************)
(* A model of anylist-cli: the credential store (config.ts), the client    *)
(* wrapper (client.ts) and the command handlers (cli.ts).                  *)
(*                                                                         *)
(* JavaScript strings that the code converts (JSON encoding, toLowerCase)  *)
(* are sequences of one-character strings, so that the conversions are     *)
(* computed character by character.                                        *)
(***************************************************************************)
EXTENDS Integers, Sequences, FiniteSets, TLC

VARIABLES
    envEmail,        \* process.env["ANYLIST_EMAIL"], a JS value
    envPassword,     \* process.env["ANYLIST_PASSWORD"], a JS value
    configFile,      \* content of CONFIG_FILE (a character sequence) or NoFile
    configMode,      \* permission bits of CONFIG_FILE ({} while it is absent)
    umask,           \* the process's file mode creation mask
    lists,           \* the remote account: a sequence of [name, items]
    op,              \* name of the operation that ran last
    args,            \* its arguments
    ret,             \* its return value
    exitCode,        \* the code given to process.exit, or NoExit
    clientInstance,  \* client.ts: whether clientInstance is non-null
    calls,           \* how often the run called each method of the client library
    before,          \* history: the value of lists when the operation started
    lastSaved,       \* history: the config of the last saveConfig, while the
                     \* file is still the one that call wrote
    cleared,         \* history: clearConfig ran and saveConfig has not since
    libraryCredentials   \* whether ~/.anylist_credentials exists

vars == <<envEmail, envPassword, configFile, configMode, umask, lists, op, args,
          ret, exitCode, clientInstance, calls, before, lastSaved, cleared,
          libraryCredentials>>

-----------------------------------------------------------------------------
(* Bounds *)

MaxStrLen == 1      \* longest email / password drawn for a config
MaxItems == 2       \* most items in a list at the start
MaxLists == 2       \* most lists in the remote account

-----------------------------------------------------------------------------
(* JavaScript values *)

JsUndefined == [kind |-> "undefined", str |-> <<>>, members |-> <<>>]
JsNull == [kind |-> "null", str |-> <<>>, members |-> <<>>]
JsString(s) == [kind |-> "string", str |-> s, members |-> <<>>]
JsObject(f) == [kind |-> "object", str |-> <<>>, members |-> f]

\* ToBoolean, for the kinds of value the model holds
Truthy(v) ==
    CASE v.kind = "undefined" -> FALSE
      [] v.kind = "null" -> FALSE
      [] v.kind = "string" -> v.str # <<>>
      [] v.kind = "object" -> TRUE

\* v?.key : undefined when v is null or undefined, or has no such member
Member(v, key) ==
    IF v.kind = "object" /\ key \in DOMAIN v.members
    THEN v.members[key]
    ELSE JsUndefined

KeyEmail == <<"e", "m", "a", "i", "l">>
KeyPassword == <<"p", "a", "s", "s", "w", "o", "r", "d">>

\* the object literal { email, password }
ConfigObject(email, password) ==
    JsObject((KeyEmail :> email) @@ (KeyPassword :> password))

\* Body applied to the value e: a local constant, "const v = e; ..."
With(e, Body(_)) == Body(e)

RECURSIVE Flatten(_)
Flatten(ss) == IF ss = <<>> THEN <<>> ELSE Head(ss) \o Flatten(Tail(ss))

-----------------------------------------------------------------------------
(* JSON.stringify(value, null, 2) and JSON.parse, for objects whose members *)
(* are strings.  The parser reads objects, strings and null; every other    *)
(* text the model gives it is not JSON at all.                              *)

Quote == "\""
Backslash == "\\"
Newline == "\n"
JsonWhitespace == {" ", "\n", "\t", "\r"}

EscapeChar(c) ==
    CASE c = Quote -> <<Backslash, Quote>>
      [] c = Backslash -> <<Backslash, Backslash>>
      [] c = Newline -> <<Backslash, "n">>
      [] c = "\t" -> <<Backslash, "t">>
      [] c = "\r" -> <<Backslash, "r">>
      [] OTHER -> <<c>>

QuoteJSONString(s) ==
    <<Quote>> \o Flatten([i \in 1..Len(s) |-> EscapeChar(s[i])]) \o <<Quote>>

\* the members of an object whose keys are email and password, in
\* insertion order, indented by two spaces
JSONStringify(config) ==
    <<"{", Newline, " ", " ">>
        \o QuoteJSONString(KeyEmail) \o <<":", " ">>
        \o QuoteJSONString(Member(config, KeyEmail).str)
        \o <<",", Newline, " ", " ">>
        \o QuoteJSONString(KeyPassword) \o <<":", " ">>
        \o QuoteJSONString(Member(config, KeyPassword).str)
        \o <<Newline, "}">>

Failed == [ok |-> FALSE, val |-> JsUndefined, pos |-> 0]
Parsed(v, p) == [ok |-> TRUE, val |-> v, pos |-> p]

RECURSIVE SkipWhitespace(_, _)
SkipWhitespace(s, i) ==
    IF i <= Len(s) /\ s[i] \in JsonWhitespace THEN SkipWhitespace(s, i + 1) ELSE i

Unescape(c) ==
    CASE c = "n" -> Newline
      [] c = "t" -> "\t"
      [] c = "r" -> "\r"
      [] OTHER -> c

\* the characters of a string literal from position i (after the opening
\* quote) up to the closing quote
RECURSIVE ParseStringBody(_, _, _)
ParseStringBody(s, i, acc) ==
    IF i > Len(s) THEN Failed
    ELSE IF s[i] = Quote THEN Parsed(JsString(acc), i + 1)
    ELSE IF s[i] = Backslash THEN
        IF i + 1 <= Len(s) /\ s[i + 1] \in {Quote, Backslash, "/", "n", "t", "r"}
        THEN ParseStringBody(s, i + 2, Append(acc, Unescape(s[i + 1])))
        ELSE Failed
    ELSE IF s[i] \in {Newline, "\t", "\r"} THEN Failed
    ELSE ParseStringBody(s, i + 1, Append(acc, s[i]))

RECURSIVE ParseValue(_, _)
RECURSIVE ParseMembers(_, _, _)

\* the members of an object from position i (at a key) on; a repeated key
\* keeps its last value
ParseMembers(s, i, f) ==
    With(SkipWhitespace(s, i), LAMBDA k :
    IF k > Len(s) \/ s[k] # Quote THEN Failed
    ELSE With(ParseStringBody(s, k + 1, <<>>), LAMBDA key :
    IF ~key.ok THEN Failed
    ELSE With(SkipWhitespace(s, key.pos), LAMBDA c :
    IF c > Len(s) \/ s[c] # ":" THEN Failed
    ELSE With(ParseValue(s, c + 1), LAMBDA v :
    IF ~v.ok THEN Failed
    ELSE With((key.val.str :> v.val) @@ f, LAMBDA g :
         With(SkipWhitespace(s, v.pos), LAMBDA e :
    IF e > Len(s) THEN Failed
    ELSE IF s[e] = "}" THEN Parsed(JsObject(g), e + 1)
    ELSE IF s[e] = "," THEN ParseMembers(s, e + 1, g)
    ELSE Failed))))))

ParseValue(s, i) ==
    With(SkipWhitespace(s, i), LAMBDA k :
    IF k > Len(s) THEN Failed
    ELSE IF s[k] = Quote THEN ParseStringBody(s, k + 1, <<>>)
    ELSE IF s[k] = "{" THEN
        With(SkipWhitespace(s, k + 1), LAMBDA m :
        IF m <= Len(s) /\ s[m] = "}" THEN Parsed(JsObject(<<>>), m + 1)
        ELSE ParseMembers(s, k + 1, <<>>))
    ELSE IF k + 3 <= Len(s) /\ SubSeq(s, k, k + 3) = <<"n", "u", "l", "l">>
        THEN Parsed(JsNull, k + 4)
    ELSE Failed)

\* JSON.parse: [ok |-> FALSE] stands for the SyntaxError it throws
JSONParse(s) ==
    With(ParseValue(s, 1), LAMBDA v :
    IF v.ok /\ SkipWhitespace(s, v.pos) = Len(s) + 1 THEN v ELSE Failed)

-----------------------------------------------------------------------------
(* types.ts: ExitCode *)

Success == 0
Failure == 1
InvalidUsage == 2
AuthFailure == 3
NoExit == 0 - 1     \* process.exit was not called

-----------------------------------------------------------------------------
(* config.ts *)

NoFile == [exists |-> FALSE, data |-> <<>>]
FileWith(data) == [exists |-> TRUE, data |-> data]

\* permission bits: owner, group and others; read and write
OwnerRW == {"ur", "uw"}

\* loadConfig(): null when the file is absent, unreadable or not JSON
loadConfig(file) ==
    IF ~file.exists THEN JsNull
    ELSE With(JSONParse(file.data), LAMBDA p : IF p.ok THEN p.val ELSE JsNull)

\* loadConfigFromEnv()
loadConfigFromEnv(email, password) ==
    IF Truthy(email) /\ Truthy(password)
    THEN ConfigObject(email, password)
    ELSE JsNull

\* a writeFileSync that opens the file for appending (flag "a")
writeFileSync_Append(file, mode, mask, data, newMode) ==
    [file |-> FileWith(file.data \o data),
     mode |-> IF file.exists THEN mode ELSE newMode \ mask]

\* writeFileSync(path, data, { mode }): flag "w" creates the file with
\* mode & ~umask, or truncates an existing file and keeps its mode
writeFileSync(file, mode, mask, data, newMode) ==
    [file |-> FileWith(data),
     mode |-> IF file.exists THEN mode ELSE newMode \ mask]

\* saveConfig(config): the file and its mode after the call
saveConfig(file, mode, mask, config) ==
    writeFileSync(file, mode, mask, JSONStringify(config), OwnerRW)

\* a requireConfig that asks the file first and the environment second
requireConfig_FileFirst(email, password, file) ==
    With(loadConfigFromEnv(email, password), LAMBDA envConfig :
    With(loadConfig(file), LAMBDA fileConfig :
        IF Truthy(Member(fileConfig, KeyEmail))
           /\ Truthy(Member(fileConfig, KeyPassword))
        THEN [config |-> fileConfig, exit |-> NoExit]
        ELSE IF Truthy(envConfig) THEN [config |-> envConfig, exit |-> NoExit]
        ELSE [config |-> JsUndefined, exit |-> AuthFailure]))

\* requireConfig(): the config it returns, or the code it exits with
requireConfig(email, password, file) ==
    With(loadConfigFromEnv(email, password), LAMBDA envConfig :
    IF Truthy(envConfig) THEN [config |-> envConfig, exit |-> NoExit]
    ELSE With(loadConfig(file), LAMBDA fileConfig :
        IF Truthy(Member(fileConfig, KeyEmail))
           /\ Truthy(Member(fileConfig, KeyPassword))
        THEN [config |-> fileConfig, exit |-> NoExit]
        ELSE [config |-> JsUndefined, exit |-> AuthFailure]))

-----------------------------------------------------------------------------
(* Inputs of the credential store *)

EmailChars == {"a", Quote, Backslash}
PasswordChars == {"b", Newline}

StringsOver(chars, n) == UNION {[1..k -> chars] : k \in 0..n}

Configs == {ConfigObject(JsString(e), JsString(p)) :
                e \in StringsOver(EmailChars, MaxStrLen),
                p \in StringsOver(PasswordChars, MaxStrLen)}

\* what the file may hold before a call: nothing, a config written earlier,
\* a config with a further member, an object without credentials, null,
\* and two texts that are not JSON
StoredConfig == ConfigObject(JsString(<<"s">>), JsString(<<"t">>))

StoredFile == FileWith(JSONStringify(StoredConfig))
EmailOnlyFile ==
    FileWith(<<"{">> \o QuoteJSONString(KeyEmail) \o <<":">> \o QuoteJSONString(<<"s">>)
             \o <<"}">>)
BrokenFile == FileWith(<<"{", Quote, "}">>)

PriorFiles ==
    {NoFile,
     StoredFile,
     FileWith(<<"{">> \o QuoteJSONString(KeyEmail) \o <<":">> \o QuoteJSONString(<<"s">>)
              \o <<",">> \o QuoteJSONString(KeyPassword) \o <<":">> \o QuoteJSONString(<<"t">>)
              \o <<",">> \o QuoteJSONString(<<"k">>) \o <<":">> \o QuoteJSONString(<<"v">>)
              \o <<"}">>),
     EmailOnlyFile,
     FileWith(<<"{", "}">>),
     FileWith(<<"n", "u", "l", "l">>),
     BrokenFile}

PriorModes == {OwnerRW, OwnerRW \cup {"gr", "or"}}

Umasks == {{"gw", "ow"}, {"gr", "gw", "or", "ow"}}

EnvEmails == {JsUndefined, JsString(<<>>), JsString(<<"e">>)}
EnvPasswords == {JsUndefined, JsString(<<>>), JsString(<<"p">>)}

NoConfig == JsUndefined
NoArgs == [listName |-> <<>>, itemName |-> <<>>]
NoCalls == [login |-> 0, getLists |-> 0, save |-> 0, createItem |-> 0,
            addItem |-> 0, removeItem |-> 0, teardown |-> 0]

-----------------------------------------------------------------------------
(* The credential store as a state machine: each action is one call *)

InitConfig ==
    /\ envEmail \in EnvEmails
    /\ envPassword \in EnvPasswords
    /\ configFile \in PriorFiles
    /\ configMode \in (IF configFile.exists THEN PriorModes ELSE {{}})
    /\ umask \in Umasks
    /\ lists = <<>>
    /\ op = "init"
    /\ args \in Configs
    /\ ret = JsUndefined
    /\ exitCode = NoExit
    /\ clientInstance = FALSE
    /\ calls = NoCalls
    /\ before = <<>>
    /\ lastSaved = NoConfig
    /\ cleared = FALSE
    /\ libraryCredentials = FALSE

\* saveConfig(args)
SaveConfig ==
    /\ \E w \in {saveConfig(configFile, configMode, umask, args)} :
        /\ configFile' = w.file
        /\ configMode' = w.mode
    /\ lastSaved' = args
    /\ op' = "saveConfig"
    /\ ret' = JsUndefined
    /\ exitCode' = NoExit
    /\ cleared' = FALSE
    /\ UNCHANGED <<envEmail, envPassword, umask, lists, args, clientInstance, calls, before,
                   libraryCredentials>>

LoadConfig ==
    /\ op' = "loadConfig"
    /\ ret' = loadConfig(configFile)
    /\ exitCode' = NoExit
    /\ UNCHANGED <<envEmail, envPassword, configFile, configMode, umask, lists, args,
                   clientInstance, calls, before, lastSaved,
                   cleared, libraryCredentials>>

RequireConfig ==
    /\ \E r \in {requireConfig(envEmail, envPassword, configFile)} :
        /\ ret' = r.config
        /\ exitCode' = r.exit
    /\ op' = "requireConfig"
    /\ UNCHANGED <<envEmail, envPassword, configFile, configMode, umask, lists, args,
                   clientInstance, calls, before, lastSaved,
                   cleared, libraryCredentials>>

NextConfig == SaveConfig \/ LoadConfig \/ RequireConfig

SpecConfig == InitConfig /\ [][NextConfig]_vars

-----------------------------------------------------------------------------
(* String.prototype.toLowerCase, on ASCII letters *)

UpperLetters == <<"A", "B", "C", "D", "E", "F", "G", "H", "I", "J", "K", "L", "M",
                  "N", "O", "P", "Q", "R", "S", "T", "U", "V", "W", "X", "Y", "Z">>
LowerLetters == <<"a", "b", "c", "d", "e", "f", "g", "h", "i", "j", "k", "l", "m",
                  "n", "o", "p", "q", "r", "s", "t", "u", "v", "w", "x", "y", "z">>

LowerChar(c) ==
    IF \E i \in 1..Len(UpperLetters) : UpperLetters[i] = c
    THEN LowerLetters[CHOOSE i \in 1..Len(UpperLetters) : UpperLetters[i] = c]
    ELSE c

toLowerCase(s) == [i \in 1..Len(s) |-> LowerChar(s[i])]

-----------------------------------------------------------------------------
(* The client library's objects (types.ts: AnyListItem, AnyListList,       *)
(* AnyListClient).  An item's quantity, category and details are opaque     *)
(* strings; a missing argument is Undefined.                                *)

Undefined == "<undefined>"
IsTruthy(v) == v # Undefined /\ v # ""
OrElse(v, d) == IF IsTruthy(v) THEN v ELSE d      \* v || d

\* Array.prototype.find as an index: the first position that satisfies
\* Test, or 0 (undefined) when none does
Find(seq, Test(_)) ==
    IF \E i \in 1..Len(seq) : Test(seq[i])
    THEN CHOOSE i \in 1..Len(seq) : Test(seq[i]) /\ \A j \in 1..(i - 1) : ~Test(seq[j])
    ELSE 0

\* Array.prototype.filter
Filter(seq, Test(_)) == SelectSeq(seq, Test)

\* list.getItemByName(name) and client.getListByName(name): the first
\* element whose name is the given string
getItemByName(items, name) == LET Same(i) == i.name = name IN Find(items, Same)
libGetListByName(ls, name) == LET Same(l) == l.name = name IN Find(ls, Same)

\* an identifier no item of the list has
RECURSIVE MaxIdentifier(_)
MaxIdentifier(items) ==
    IF items = <<>> THEN 0
    ELSE With(MaxIdentifier(Tail(items)), LAMBDA m :
         IF Head(items).identifier > m THEN Head(items).identifier ELSE m)

\* client.createItem(options)
createItem(items, options) ==
    [name |-> options.name,
     quantity |-> options.quantity,
     details |-> options.details,
     categoryMatchId |-> options.categoryMatchId,
     checked |-> FALSE,
     identifier |-> MaxIdentifier(items) + 1]

\* list.removeItem(item)
listRemoveItem(items, i) == [k \in 1..(Len(items) - 1) |-> IF k < i THEN items[k] ELSE items[k + 1]]

-----------------------------------------------------------------------------
(* client.ts *)

\* the ItemInfo literal the functions return
ItemInfo(item) ==
    [name |-> item.name,
     quantity |-> OrElse(item.quantity, ""),
     details |-> OrElse(item.details, ""),
     checked |-> item.checked,
     identifier |-> item.identifier,
     categoryMatchId |-> OrElse(item.categoryMatchId, "other")]

NoItemInfo == [name |-> <<>>, quantity |-> "", details |-> "", checked |-> FALSE,
               identifier |-> 0, categoryMatchId |-> ""]

NoDelta == [save |-> 0, createItem |-> 0, addItem |-> 0, removeItem |-> 0]

\* what a call leaves behind: the items of the list object in memory, the
\* items the service holds, whether the call returned a value (found), that
\* value (info, count), whether it threw, and the library calls it made; a
\* library call that rejects leaves the service as it was
Outcome(items, remote, found, info, count, threw, delta) ==
    [items |-> items, remote |-> remote, found |-> found, info |-> info,
     count |-> count, threw |-> threw, delta |-> delta]

\* getItems(list, uncheckedOnly)
getItems(items, uncheckedOnly) ==
    LET Unchecked(i) == ~i.checked IN
    With(IF uncheckedOnly THEN Filter(items, Unchecked) ELSE items, LAMBDA shown :
         [k \in 1..Len(shown) |-> ItemInfo(shown[k])])

\* the "items" handler in JSON mode: the object it prints with JSON.stringify
itemsJsonOutput(listName, items) == [name |-> listName, items |-> items]

\* one item line of the text mode: the mark, the name and the " (quantity)"
\* suffix, which is empty when the quantity is
TextLine(mark, item) ==
    [mark |-> mark, name |-> item.name,
     qty |-> IF item.quantity # "" THEN <<" (", item.quantity, ")">> ELSE <<>>]

\* an "items" text mode that prints the unchecked items only
itemsTextOutput_UncheckedOnly(items, uncheckedOnly) ==
    LET IsUnchecked(i) == ~i.checked
        unchecked == Filter(items, IsUnchecked)
    IN  [k \in 1..Len(unchecked) |-> TextLine("bullet", unchecked[k])]

\* the "items" handler in text mode: the item lines it prints, in order
itemsTextOutput(items, uncheckedOnly) ==
    LET IsUnchecked(i) == ~i.checked
        IsChecked(i) == i.checked
        Lines(mark, shown) == [k \in 1..Len(shown) |-> TextLine(mark, shown[k])]
    IN  IF Len(items) = 0
        THEN <<>>      \* "List is empty" or "No unchecked items"
        ELSE Lines("bullet", Filter(items, IsUnchecked))
             \o (IF Len(Filter(items, IsChecked)) > 0 /\ ~uncheckedOnly
                 THEN Lines("check mark", Filter(items, IsChecked))
                 ELSE <<>>)

\* a findItemByName without the exact-match step
findItemByName_LowerOnly(items, name) ==
    LET lowerName == toLowerCase(name)
        SameLower(i) == toLowerCase(i.name) = lowerName
    IN  Find(items, SameLower)

\* findItemByName(list, name): the position of the item found, 0 for
\* undefined
findItemByName(items, name) ==
    LET lowerName == toLowerCase(name)
        SameLower(i) == toLowerCase(i.name) = lowerName
    IN  With(getItemByName(items, name), LAMBDA exactMatch :
             IF exactMatch # 0 THEN exactMatch ELSE Find(items, SameLower))

\* the body of addItem once the lookup gave `existing`; failAt = 1 makes the
\* call to the service (save, or list.addItem) reject
addItemFrom(existing, items, name, quantity, categoryMatchId, details, failAt) ==
    IF existing # 0 THEN
        With(IF items[existing].checked
             THEN [items[existing] EXCEPT !.checked = FALSE] ELSE items[existing], LAMBDA e1 :
        With(IF IsTruthy(quantity) THEN [e1 EXCEPT !.quantity = quantity] ELSE e1, LAMBDA e2 :
        With(IF IsTruthy(categoryMatchId)
             THEN [e2 EXCEPT !.categoryMatchId = categoryMatchId] ELSE e2, LAMBDA e3 :
        With(IF details # Undefined THEN [e3 EXCEPT !.details = details] ELSE e3, LAMBDA e4 :
        With(items[existing].checked \/ IsTruthy(quantity) \/ IsTruthy(categoryMatchId)
                \/ details # Undefined, LAMBDA needsSave :
        With(needsSave /\ failAt = 1, LAMBDA threw :
            Outcome([items EXCEPT ![existing] = e4],
                    IF needsSave /\ ~threw THEN [items EXCEPT ![existing] = e4] ELSE items,
                    ~threw, IF threw THEN NoItemInfo ELSE ItemInfo(e4), 0, threw,
                    [NoDelta EXCEPT !.save = IF needsSave THEN 1 ELSE 0])))))))
    ELSE
        With(createItem(items,
                        [name |-> name,
                         quantity |-> IF IsTruthy(quantity) THEN quantity ELSE Undefined,
                         details |-> details,
                         categoryMatchId |-> IF IsTruthy(categoryMatchId)
                                             THEN categoryMatchId ELSE Undefined]),
             LAMBDA item :
        With(failAt = 1, LAMBDA threw :
            Outcome(IF threw THEN items ELSE Append(items, item),
                    IF threw THEN items ELSE Append(items, item), ~threw,
                    IF threw THEN NoItemInfo ELSE ItemInfo(item), 0, threw,
                    [NoDelta EXCEPT !.createItem = 1, !.addItem = 1])))

\* an addItem that looks the name up with list.getItemByName alone
addItem_ExactOnly(items, name, quantity, categoryMatchId, details, failAt) ==
    addItemFrom(getItemByName(items, name), items, name, quantity, categoryMatchId,
                details, failAt)

\* addItem(client, list, name, quantity, categoryMatchId, details)
addItem(items, name, quantity, categoryMatchId, details, failAt) ==
    addItemFrom(findItemByName(items, name), items, name, quantity, categoryMatchId,
                details, failAt)

\* a checkItem and uncheckItem that flip the flag instead of setting it
setChecked_Toggle(items, name, value, failAt) ==
    With(findItemByName(items, name), LAMBDA item :
    IF item = 0 THEN Outcome(items, items, FALSE, NoItemInfo, 0, FALSE, NoDelta)
    ELSE With([items[item] EXCEPT !.checked = ~items[item].checked], LAMBDA changed :
         With(failAt = 1, LAMBDA threw :
             Outcome([items EXCEPT ![item] = changed],
                     IF threw THEN items ELSE [items EXCEPT ![item] = changed], ~threw,
                     IF threw THEN NoItemInfo ELSE ItemInfo(changed), 0, threw,
                     [NoDelta EXCEPT !.save = 1]))))

\* checkItem(list, name) and uncheckItem(list, name)
setChecked(items, name, value, failAt) ==
    With(findItemByName(items, name), LAMBDA item :
    IF item = 0 THEN Outcome(items, items, FALSE, NoItemInfo, 0, FALSE, NoDelta)
    ELSE With([items[item] EXCEPT !.checked = value], LAMBDA changed :
         With(failAt = 1, LAMBDA threw :
             Outcome([items EXCEPT ![item] = changed],
                     IF threw THEN items ELSE [items EXCEPT ![item] = changed], ~threw,
                     IF threw THEN NoItemInfo ELSE ItemInfo(changed), 0, threw,
                     [NoDelta EXCEPT !.save = 1]))))

checkItem(items, name, failAt) == setChecked(items, name, TRUE, failAt)
uncheckItem(items, name, failAt) == setChecked(items, name, FALSE, failAt)

\* removeItem(list, name)
removeItem(items, name, failAt) ==
    With(findItemByName(items, name), LAMBDA item :
    IF item = 0 THEN Outcome(items, items, FALSE, NoItemInfo, 0, FALSE, NoDelta)
    ELSE With(failAt = 1, LAMBDA threw :
         With(IF threw THEN items ELSE listRemoveItem(items, item), LAMBDA left :
             Outcome(left, left, ~threw, NoItemInfo, 0, threw,
                     [NoDelta EXCEPT !.removeItem = 1]))))

\* clearChecked(list): the loop over the items checked at the start; the
\* failAt-th removal rejects
RECURSIVE clearLoop(_, _, _, _)
clearLoop(items, checkedItems, count, failAt) ==
    IF checkedItems = <<>>
    THEN Outcome(items, items, TRUE, NoItemInfo, count, FALSE,
                 [NoDelta EXCEPT !.removeItem = count])
    ELSE IF failAt = count + 1
    THEN Outcome(items, items, FALSE, NoItemInfo, count, TRUE,
                 [NoDelta EXCEPT !.removeItem = count + 1])
    ELSE LET Same(i) == i.identifier = Head(checkedItems).identifier IN
         clearLoop(listRemoveItem(items, Find(items, Same)), Tail(checkedItems),
                   count + 1, failAt)

\* a clearChecked that forgets the filter and loops over every item
clearChecked_Every(items, failAt) == clearLoop(items, items, 0, failAt)

clearChecked(items, failAt) ==
    LET Checked(i) == i.checked IN
    clearLoop(items, Filter(items, Checked), 0, failAt)

\* a getListByName without the exact-match step
getListByName_LowerOnly(ls, name, failFetch) ==
    IF failFetch = 1 THEN [index |-> 0, threw |-> TRUE, fetches |-> 1]
    ELSE IF failFetch = 2 THEN [index |-> 0, threw |-> TRUE, fetches |-> 2]
    ELSE LET lowerName == toLowerCase(name)
             SameLower(l) == toLowerCase(l.name) = lowerName
         IN  [index |-> Find(ls, SameLower), threw |-> FALSE, fetches |-> 2]

\* getListByName(client, name): the position of the list found (0 for
\* undefined); the failFetch-th client.getLists() rejects
getListByName(ls, name, failFetch) ==
    LET lowerName == toLowerCase(name)
        SameLower(l) == toLowerCase(l.name) = lowerName
    IN  IF failFetch = 1 THEN [index |-> 0, threw |-> TRUE, fetches |-> 1]
        ELSE With(libGetListByName(ls, name), LAMBDA exactMatch :
        IF exactMatch # 0 THEN [index |-> exactMatch, threw |-> FALSE, fetches |-> 1]
        ELSE IF failFetch = 2 THEN [index |-> 0, threw |-> TRUE, fetches |-> 2]
        ELSE [index |-> Find(ls, SameLower), threw |-> FALSE, fetches |-> 2])

\* getLists(client): the ListInfo of every list
getLists(ls) ==
    LET Checked(i) == i.checked IN
    [k \in 1..Len(ls) |->
        [name |-> ls[k].name,
         identifier |-> ls[k].identifier,
         itemCount |-> Len(ls[k].items),
         checkedCount |-> Len(Filter(ls[k].items, Checked))]]

-----------------------------------------------------------------------------
(* Inputs of the client functions *)

SeqsUpTo(S, n) == UNION {[1..k -> S] : k \in 0..n}

ItemNames == {<<"m", "i">>, <<"M", "i">>, <<"e">>}
InputItemNames == ItemNames \cup {<<"M", "I">>, <<"x">>}

\* an item as the service delivers it, but for its identifier
ItemStates ==
    {[name |-> n, checked |-> c, quantity |-> f[1], categoryMatchId |-> f[2], details |-> ""] :
        n \in ItemNames, c \in BOOLEAN, f \in {<<"", "">>, <<"1", "meat-seafood">>}}

\* the items of a list: identifiers are distinct
ItemLists ==
    {[k \in 1..Len(q) |->
        [name |-> q[k].name, quantity |-> q[k].quantity, checked |-> q[k].checked,
         identifier |-> k, categoryMatchId |-> q[k].categoryMatchId,
         details |-> q[k].details]] : q \in SeqsUpTo(ItemStates, MaxItems)}

ListNames == {<<"g", "r">>, <<"G", "r">>, <<"g", "R">>, <<"h">>}
InputListNames == ListNames \cup {<<"G", "R">>, <<"x">>}

ListOf(name, id, items) == [name |-> name, identifier |-> id, items |-> items]

\* an account whose lists are empty
EmptyLists ==
    {[k \in 1..Len(q) |-> ListOf(q[k], k, <<>>)] : q \in SeqsUpTo(ListNames, MaxLists)}

FunctionArgs ==
    [name : InputItemNames, quantity : {Undefined, "", "2"},
     categoryMatchId : {Undefined, "dairy"}, details : {Undefined, "", "n"},
     failAt : {0, 1}, uncheckedOnly : {FALSE}]

NameArgs == {a \in FunctionArgs : /\ a.quantity = Undefined
                                   /\ a.categoryMatchId = Undefined
                                   /\ a.details = Undefined}

-----------------------------------------------------------------------------
(* The functions of client.ts on one list: Init draws the list, each action *)
(* is one call on it.                                                       *)

InitItems ==
    /\ envEmail = JsUndefined
    /\ envPassword = JsUndefined
    /\ configFile = NoFile
    /\ configMode = {}
    /\ umask = {"gw", "ow"}
    /\ \E items \in ItemLists : lists = <<ListOf(<<"g", "r">>, 1, items)>>
    /\ op = "init"
    /\ args = CHOOSE a \in NameArgs : TRUE
    /\ ret = 0
    /\ exitCode = NoExit
    /\ clientInstance = TRUE
    /\ calls = NoCalls
    /\ before = lists
    /\ lastSaved = NoConfig
    /\ cleared = FALSE
    /\ libraryCredentials = FALSE

\* the state after a call that left outcome r
Called(name, a, r) ==
    /\ op = "init"
    /\ op' = name
    /\ args' = a
    /\ ret' = r
    /\ lists' = [lists EXCEPT ![1].items = r.items]
    /\ calls' = [calls EXCEPT !.save = r.delta.save,
                              !.createItem = r.delta.createItem,
                              !.addItem = r.delta.addItem,
                              !.removeItem = r.delta.removeItem]
    /\ UNCHANGED <<envEmail, envPassword, configFile, configMode, umask, exitCode,
                   clientInstance, before, lastSaved,
                   cleared, libraryCredentials>>

FindItemByName ==
    \E a \in {x \in NameArgs : x.failAt = 0} :
        \E i \in {findItemByName(lists[1].items, a.name)} :
            Called("findItemByName", a,
                   Outcome(lists[1].items, lists[1].items, i # 0,
                           IF i = 0 THEN NoItemInfo ELSE ItemInfo(lists[1].items[i]),
                           i, FALSE, NoDelta))

AddItem ==
    \E a \in FunctionArgs :
        Called("addItem", a,
               addItem(lists[1].items, a.name, a.quantity, a.categoryMatchId,
                       a.details, a.failAt))

CheckItem ==
    \E a \in NameArgs : Called("checkItem", a, checkItem(lists[1].items, a.name, a.failAt))

UncheckItem ==
    \E a \in NameArgs : Called("uncheckItem", a, uncheckItem(lists[1].items, a.name, a.failAt))

RemoveItem ==
    \E a \in NameArgs : Called("removeItem", a, removeItem(lists[1].items, a.name, a.failAt))

ClearChecked ==
    \E f \in 0..MaxItems :
        Called("clearChecked", [(CHOOSE a \in NameArgs : TRUE) EXCEPT !.failAt = f],
               clearChecked(lists[1].items, f))

\* the "items" handler from getItems on, in both output modes
ShowItems ==
    \E u \in BOOLEAN :
        \E shown \in {getItems(lists[1].items, u)} :
            Called("items", [(CHOOSE a \in NameArgs : TRUE) EXCEPT !.uncheckedOnly = u],
                   [items |-> lists[1].items, delta |-> NoDelta,
                    json |-> itemsJsonOutput(lists[1].name, shown),
                    text |-> itemsTextOutput(shown, u)])

NextItems ==
    \/ FindItemByName
    \/ AddItem
    \/ CheckItem
    \/ UncheckItem
    \/ RemoveItem
    \/ ClearChecked
    \/ ShowItems

SpecItems == InitItems /\ [][NextItems]_vars

-----------------------------------------------------------------------------
(* getListByName on an account: Init draws the lists, the action is one call *)

InitLists ==
    /\ envEmail = JsUndefined
    /\ envPassword = JsUndefined
    /\ configFile = NoFile
    /\ configMode = {}
    /\ umask = {"gw", "ow"}
    /\ lists \in EmptyLists
    /\ op = "init"
    /\ args = [name |-> <<>>, failFetch |-> 0]
    /\ ret = [index |-> 0, threw |-> FALSE, fetches |-> 0]
    /\ exitCode = NoExit
    /\ clientInstance = TRUE
    /\ calls = NoCalls
    /\ before = lists
    /\ lastSaved = NoConfig
    /\ cleared = FALSE
    /\ libraryCredentials = FALSE

GetListByName ==
    \E name \in InputListNames, failFetch \in 0..2 :
        \E r \in {getListByName(lists, name, failFetch)} :
            /\ op = "init"
            /\ op' = "getListByName"
            /\ args' = [name |-> name, failFetch |-> failFetch]
            /\ ret' = r
            /\ calls' = [calls EXCEPT !.getLists = r.fetches]
            /\ UNCHANGED <<envEmail, envPassword, configFile, configMode, umask, lists,
                           exitCode, clientInstance, before, lastSaved,
                   cleared, libraryCredentials>>

NextLists == GetListByName

SpecLists == InitLists /\ [][NextLists]_vars

-----------------------------------------------------------------------------
(* types.ts: ANYLIST_CATEGORIES *)

ANYLIST_CATEGORIES ==
    <<"p", "r", "o", "d", "u", "c", "e">> :> "produce" @@
    <<"m", "e", "a", "t">> :> "meat-seafood" @@
    <<"s", "e", "a", "f", "o", "o", "d">> :> "meat-seafood" @@
    <<"d", "a", "i", "r", "y">> :> "dairy" @@
    <<"b", "a", "k", "e", "r", "y">> :> "bakery-bread" @@
    <<"b", "r", "e", "a", "d">> :> "bakery-bread" @@
    <<"f", "r", "o", "z", "e", "n">> :> "frozen" @@
    <<"c", "a", "n", "n", "e", "d">> :> "canned-goods" @@
    <<"c", "o", "n", "d", "i", "m", "e", "n", "t", "s">> :> "condiments" @@
    <<"b", "e", "v", "e", "r", "a", "g", "e", "s">> :> "beverages" @@
    <<"s", "n", "a", "c", "k", "s">> :> "snacks" @@
    <<"p", "a", "s", "t", "a">> :> "pasta-rice" @@
    <<"r", "i", "c", "e">> :> "pasta-rice" @@
    <<"c", "e", "r", "e", "a", "l">> :> "breakfast" @@
    <<"b", "r", "e", "a", "k", "f", "a", "s", "t">> :> "breakfast" @@
    <<"b", "a", "k", "i", "n", "g">> :> "baking" @@
    <<"s", "p", "i", "c", "e", "s">> :> "spices-seasonings" @@
    <<"s", "e", "a", "s", "o", "n", "i", "n", "g", "s">> :> "spices-seasonings" @@
    <<"h", "o", "u", "s", "e", "h", "o", "l", "d">> :> "household" @@
    <<"p", "e", "r", "s", "o", "n", "a", "l", " ", "c", "a", "r", "e">> :> "personal-care" @@
    <<"o", "t", "h", "e", "r">> :> "other"

\* the properties every object literal inherits from Object.prototype
ObjectPrototypeKeys ==
    {<<"c", "o", "n", "s", "t", "r", "u", "c", "t", "o", "r">>,
     <<"_", "_", "p", "r", "o", "t", "o", "_", "_">>,
     <<"t", "o", "S", "t", "r", "i", "n", "g">>,
     <<"v", "a", "l", "u", "e", "O", "f">>,
     <<"h", "a", "s", "O", "w", "n", "P", "r", "o", "p", "e", "r", "t", "y">>,
     <<"i", "s", "P", "r", "o", "t", "o", "t", "y", "p", "e", "O", "f">>,
     <<"p", "r", "o", "p", "e", "r", "t", "y", "I", "s", "E", "n", "u", "m", "e", "r", "a", "b", "l", "e">>,
     <<"t", "o", "L", "o", "c", "a", "l", "e", "S", "t", "r", "i", "n", "g">>}

\* what reading an inherited property gives: a function or object, never a
\* category id, and truthy
InheritedValue == "<inherited from Object.prototype>"

\* ANYLIST_CATEGORIES[key]: an own property, else an inherited one, else
\* undefined
CategoryLookup(key) ==
    IF key \in DOMAIN ANYLIST_CATEGORIES THEN ANYLIST_CATEGORIES[key]
    ELSE IF key \in ObjectPrototypeKeys THEN InheritedValue
    ELSE Undefined

-----------------------------------------------------------------------------
(* cli.ts: the command handlers.  A handler runs from start to process end; *)
(* `fail` names the one call to the service that rejects, if any.           *)

NoOption == <<"<undefined>">>      \* an option that was not given
OptionGiven(text) == text # NoOption /\ text # <<>>     \* if (options.x)

FailFetch(fail) == CASE fail = "fetch1" -> 1 [] fail = "fetch2" -> 2 [] OTHER -> 0
FailAt(fail) == CASE fail = "remote1" -> 1 [] fail = "remote2" -> 2 [] OTHER -> 0

\* a getAuthenticatedClient that lets a rejected login pass
getAuthenticatedClient_Unchecked(email, password, file, fail) ==
    With(requireConfig(email, password, file), LAMBDA config :
    IF config.exit # NoExit
    THEN [exit |-> config.exit, login |-> 0, client |-> FALSE]
    ELSE [exit |-> NoExit, login |-> 1, client |-> TRUE])

\* getClient(email, password) inside getAuthenticatedClient(): the exit code
\* (NoExit when a client is returned), whether login was called, and
\* whether clientInstance is set
getAuthenticatedClient(email, password, file, fail) ==
    With(requireConfig(email, password, file), LAMBDA config :
    IF config.exit # NoExit
    THEN [exit |-> config.exit, login |-> 0, client |-> FALSE]
    ELSE IF fail = "login"
    THEN [exit |-> AuthFailure, login |-> 1, client |-> FALSE]
    ELSE [exit |-> NoExit, login |-> 1, client |-> TRUE])

\* teardown(): calls client.teardown() when clientInstance is set
teardown(client) == [called |-> IF client THEN 1 ELSE 0, client |-> FALSE]

\* the end of a run: exit code, the account on the service, clientInstance,
\* the library calls made, and how far the run got
Run(exit, remote, client, loggedIn, listFound, counts) ==
    [exit |-> exit, remote |-> remote, client |-> client, loggedIn |-> loggedIn,
     listFound |-> listFound, calls |-> counts]

Counts(login, fetches, delta, teardowns) ==
    [login |-> login, getLists |-> fetches, save |-> delta.save,
     createItem |-> delta.createItem, addItem |-> delta.addItem,
     removeItem |-> delta.removeItem, teardown |-> teardowns]

\* the exit code of a run whose handler returns without process.exit
EndOfHandler == Success

\* the "lists" command
listsCommand(email, password, file, remote, a) ==
    With(getAuthenticatedClient(email, password, file, a.fail), LAMBDA auth :
    IF auth.exit # NoExit
    THEN Run(auth.exit, remote, auth.client, FALSE, 0, Counts(auth.login, 0, NoDelta, 0))
    ELSE IF FailFetch(a.fail) = 1
    THEN \* catch: printError, process.exit(ExitCode.Failure)
         Run(Failure, remote, auth.client, TRUE, 0, Counts(1, 1, NoDelta, 0))
    ELSE With(teardown(auth.client), LAMBDA t :
         Run(EndOfHandler, remote, t.client, TRUE, 0, Counts(1, 1, NoDelta, t.called))))

\* the part of the "add" handler that maps --category to a category id:
\* rejected is the exit with InvalidUsage
categoryOption(category) ==
    IF OptionGiven(category)
    THEN With(CategoryLookup(toLowerCase(category)), LAMBDA categoryId :
         [rejected |-> ~IsTruthy(categoryId), categoryId |-> categoryId])
    ELSE [rejected |-> FALSE, categoryId |-> Undefined]

\* what the handler of cmd does with the list it found
commandBody(cmd, items, a) ==
    CASE cmd = "items" ->
            Outcome(items, items, TRUE, NoItemInfo, Len(getItems(items, a.uncheckedOnly)),
                    FALSE, NoDelta)
      [] cmd = "add" ->
            addItem(items, a.itemName, a.quantity, categoryOption(a.category).categoryId,
                    Undefined, FailAt(a.fail))
      [] cmd = "check" -> checkItem(items, a.itemName, FailAt(a.fail))
      [] cmd = "uncheck" -> uncheckItem(items, a.itemName, FailAt(a.fail))
      [] cmd = "remove" -> removeItem(items, a.itemName, FailAt(a.fail))
      [] cmd = "clear" -> clearChecked(items, FailAt(a.fail))

\* a handler that never reports a missing item
reportsMissingItem_Never(cmd, outcome) == FALSE

\* whether the handler ends with "Item not found" and process.exit(Failure)
reportsMissingItem(cmd, outcome) ==
    cmd \in {"check", "uncheck", "remove"} /\ ~outcome.found

\* the options each command declares with .option(...)
DeclaredOptions(cmd) ==
    CASE cmd = "items" -> {"--json", "--unchecked"}
      [] cmd = "add" -> {"--quantity", "--category", "--json"}
      [] cmd \in {"lists", "check", "uncheck"} -> {"--json"}
      [] OTHER -> {}

\* the options on the command line a
GivenOptions(a) ==
    (IF a.quantity # Undefined THEN {"--quantity"} ELSE {})
        \cup (IF a.category # NoOption THEN {"--category"} ELSE {})
        \cup (IF a.uncheckedOnly THEN {"--unchecked"} ELSE {})
        \cup (IF a.notes # Undefined THEN {"--notes"} ELSE {})

\* Commander ends the process through exitOverride (commander.unknownOption)
\* before the action runs when the command line has an undeclared option
UnknownOptions(cmd, a) == GivenOptions(a) \ DeclaredOptions(cmd)

\* the handlers of items, add, check, uncheck, remove and clear
listCommand(cmd, email, password, file, remote, a) ==
    IF UnknownOptions(cmd, a) # {}
    THEN Run(InvalidUsage, remote, FALSE, FALSE, 0, Counts(0, 0, NoDelta, 0))
    ELSE
    With(getAuthenticatedClient(email, password, file, a.fail), LAMBDA auth :
    IF auth.exit # NoExit
    THEN Run(auth.exit, remote, auth.client, FALSE, 0, Counts(auth.login, 0, NoDelta, 0))
    ELSE With(getListByName(remote, a.listName, FailFetch(a.fail)), LAMBDA list :
    IF list.threw
    THEN \* catch: printError, process.exit(ExitCode.Failure)
         Run(Failure, remote, auth.client, TRUE, 0, Counts(1, list.fetches, NoDelta, 0))
    ELSE With(teardown(auth.client), LAMBDA t :
    IF list.index = 0
    THEN Run(Failure, remote, t.client, TRUE, 0, Counts(1, list.fetches, NoDelta, t.called))
    ELSE IF cmd = "add" /\ categoryOption(a.category).rejected
    THEN Run(InvalidUsage, remote, t.client, TRUE, list.index,
             Counts(1, list.fetches, NoDelta, t.called))
    ELSE With(commandBody(cmd, remote[list.index].items, a), LAMBDA o :
         With([remote EXCEPT ![list.index].items = o.remote], LAMBDA after :
    IF o.threw
    THEN \* catch: printError, process.exit(ExitCode.Failure), without teardown()
         Run(Failure, after, auth.client, TRUE, list.index,
             Counts(1, list.fetches, o.delta, 0))
    ELSE Run(IF reportsMissingItem(cmd, o) THEN Failure ELSE EndOfHandler,
             after, t.client, TRUE, list.index,
             Counts(1, list.fetches, o.delta, t.called)))))))

-----------------------------------------------------------------------------
(* Inputs of the commands *)

Text(item, checked, id) ==
    [name |-> item, quantity |-> "", checked |-> checked, identifier |-> id,
     categoryMatchId |-> "", details |-> ""]

\* the item lists of the accounts the commands run against
AccountItems ==
    {<<Text(<<"m", "i">>, FALSE, 1)>>,
     <<Text(<<"M", "i">>, TRUE, 1), Text(<<"e">>, TRUE, 2)>>}

AccountListNames == {<<"g", "r">>, <<"G", "r">>}

Accounts ==
    {[k \in 1..Len(q) |-> ListOf(q[k][1], k, q[k][2])] :
        q \in SeqsUpTo(AccountListNames \X AccountItems, MaxLists)}

\* an account for the runs that vary the credentials
OneAccount == <<ListOf(<<"g", "r">>, 1, <<Text(<<"m", "i">>, FALSE, 1)>>)>>

CategoryOptions ==
    {NoOption, <<>>, <<"D", "a", "i", "r", "y">>, <<"n", "o", "p", "e">>,
     <<"t", "o", "S", "t", "r", "i", "n", "g">>,
     <<"c", "o", "n", "s", "t", "r", "u", "c", "t", "o", "r">>}

\* the environments and config files of the runs that vary the credentials
CredentialEnvs ==
    {<<JsUndefined, JsUndefined>>,
     <<JsString(<<"e">>), JsString(<<>>)>>,
     <<JsString(<<"e">>), JsString(<<"p">>)>>}

CredentialFiles == {NoFile, StoredFile, EmailOnlyFile, BrokenFile}

Failures == {"none", "login", "fetch1", "fetch2", "remote1", "remote2"}

\* --notes <text> on the command line of add, or not given
NotesOptions == {Undefined, "n"}

InputAccountNames == {<<"g", "r">>, <<"G", "R">>, <<"x">>}
InputAccountItems == {<<"m", "i">>, <<"M", "I">>, <<"x">>}

NoCommandArgs ==
    [listName |-> <<>>, itemName |-> <<>>, quantity |-> Undefined, category |-> NoOption,
     uncheckedOnly |-> FALSE, notes |-> Undefined, fail |-> "none"]

\* the arguments a command reads; the others keep their default
ArgsOf(cmd) ==
    CASE cmd = "lists" ->
            {[NoCommandArgs EXCEPT !.fail = f] : f \in Failures \ {"fetch2", "remote1", "remote2"}}
      [] cmd = "items" ->
            {[NoCommandArgs EXCEPT !.listName = l, !.uncheckedOnly = u, !.fail = f] :
                l \in InputAccountNames, u \in BOOLEAN,
                f \in Failures \ {"remote1", "remote2"}}
      [] cmd = "add" ->
            {[NoCommandArgs EXCEPT !.listName = l, !.itemName = i, !.quantity = q,
                                   !.category = c, !.notes = n, !.fail = f] :
                l \in InputAccountNames, i \in InputAccountItems, q \in {Undefined, "2"},
                c \in CategoryOptions, n \in NotesOptions, f \in Failures \ {"remote2"}}
      [] cmd \in {"check", "uncheck", "remove"} ->
            {[NoCommandArgs EXCEPT !.listName = l, !.itemName = i, !.fail = f] :
                l \in InputAccountNames, i \in InputAccountItems,
                f \in Failures \ {"remote2"}}
      [] cmd = "clear" ->
            {[NoCommandArgs EXCEPT !.listName = l, !.fail = f] :
                l \in InputAccountNames, f \in Failures}

-----------------------------------------------------------------------------
(* One run of the program: Init draws the environment, the config file and  *)
(* the account, the action is the command's handler from start to exit.     *)

Init ==
    /\ \/ /\ \E e \in CredentialEnvs : envEmail = e[1] /\ envPassword = e[2]
          /\ configFile \in CredentialFiles
          /\ lists = OneAccount
       \/ /\ envEmail = JsString(<<"e">>)
          /\ envPassword = JsString(<<"p">>)
          /\ configFile = NoFile
          /\ lists \in Accounts
    /\ configMode = (IF configFile.exists THEN OwnerRW ELSE {})
    /\ umask = {"gw", "ow"}
    /\ op = "init"
    /\ args = NoCommandArgs
    /\ ret = Run(NoExit, lists, FALSE, FALSE, 0, NoCalls)
    /\ exitCode = NoExit
    /\ clientInstance = FALSE
    /\ calls = NoCalls
    /\ before = lists
    /\ lastSaved = NoConfig
    /\ cleared = FALSE
    /\ libraryCredentials = FALSE

\* the state when the run r of cmd has ended
Ended(cmd, a, r) ==
    /\ op = "init"
    /\ op' = cmd
    /\ args' = a
    /\ ret' = r
    /\ exitCode' = r.exit
    /\ lists' = r.remote
    /\ clientInstance' = r.client
    /\ calls' = r.calls
    /\ UNCHANGED <<envEmail, envPassword, configFile, configMode, umask, before, lastSaved,
                   cleared, libraryCredentials>>

ListsCommand ==
    \E a \in ArgsOf("lists") :
        Ended("lists", a, listsCommand(envEmail, envPassword, configFile, lists, a))

ItemsCommand ==
    \E a \in ArgsOf("items") :
        Ended("items", a, listCommand("items", envEmail, envPassword, configFile, lists, a))

AddCommand ==
    \E a \in ArgsOf("add") :
        Ended("add", a, listCommand("add", envEmail, envPassword, configFile, lists, a))

CheckCommand ==
    \E a \in ArgsOf("check") :
        Ended("check", a, listCommand("check", envEmail, envPassword, configFile, lists, a))

UncheckCommand ==
    \E a \in ArgsOf("uncheck") :
        Ended("uncheck", a, listCommand("uncheck", envEmail, envPassword, configFile, lists, a))

RemoveCommand ==
    \E a \in ArgsOf("remove") :
        Ended("remove", a, listCommand("remove", envEmail, envPassword, configFile, lists, a))

ClearCommand ==
    \E a \in ArgsOf("clear") :
        Ended("clear", a, listCommand("clear", envEmail, envPassword, configFile, lists, a))

Next ==
    \/ ListsCommand
    \/ ItemsCommand
    \/ AddCommand
    \/ CheckCommand
    \/ UncheckCommand
    \/ RemoveCommand
    \/ ClearCommand

Spec == Init /\ [][Next]_vars

-----------------------------------------------------------------------------
(* config.ts and cli.ts: logout, whoami and auth *)

\* a clearConfig that leaves CONFIG_FILE in place
clearConfig_KeepConfig(file, mode, library) ==
    [file |-> file, mode |-> mode, library |-> FALSE,
     unlinked |-> IF library THEN 1 ELSE 0]

\* clearConfig(): the two files after the call and the unlinkSync calls made
clearConfig(file, mode, library) ==
    [file |-> NoFile, mode |-> {}, library |-> FALSE,
     unlinked |-> (IF file.exists THEN 1 ELSE 0) + (IF library THEN 1 ELSE 0)]

\* the "whoami" handler: what it reports, in JSON and in text mode alike
whoami(file) ==
    With(loadConfig(file), LAMBDA config :
    IF ~Truthy(config)
    THEN [authenticated |-> FALSE, email |-> JsUndefined]
    ELSE [authenticated |-> TRUE, email |-> Member(config, KeyEmail)])

AuthRun(exit, file, mode, client, saved, counts) ==
    [exit |-> exit, file |-> file, mode |-> mode, client |-> client, saved |-> saved,
     calls |-> counts]

\* an auth handler that stores the credentials before it verifies them
authCommand_SaveFirst(isTTY, email, password, fail, file, mode, mask) ==
    With(saveConfig(file, mode, mask, ConfigObject(JsString(email), JsString(password))),
         LAMBDA w :
    IF ~isTTY \/ email = <<>> \/ password = <<>>
    THEN AuthRun(InvalidUsage, file, mode, FALSE, FALSE, NoCalls)
    ELSE IF fail = "login"
    THEN AuthRun(AuthFailure, w.file, w.mode, FALSE, TRUE, Counts(1, 0, NoDelta, 0))
    ELSE IF fail = "fetch1"
    THEN AuthRun(AuthFailure, w.file, w.mode, TRUE, TRUE, Counts(1, 1, NoDelta, 0))
    ELSE AuthRun(EndOfHandler, w.file, w.mode, FALSE, TRUE, Counts(1, 1, NoDelta, 1)))

\* the "auth" handler: email and password are the answers to the two prompts
authCommand(isTTY, email, password, fail, file, mode, mask) ==
    IF ~isTTY
    THEN AuthRun(InvalidUsage, file, mode, FALSE, FALSE, NoCalls)
    ELSE IF email = <<>> \/ password = <<>>
    THEN AuthRun(InvalidUsage, file, mode, FALSE, FALSE, NoCalls)
    ELSE IF fail = "login"
    THEN \* getClient rejects; catch: process.exit(ExitCode.AuthFailure)
         AuthRun(AuthFailure, file, mode, FALSE, FALSE, Counts(1, 0, NoDelta, 0))
    ELSE IF fail = "fetch1"
    THEN \* getLists rejects; catch: process.exit(ExitCode.AuthFailure)
         AuthRun(AuthFailure, file, mode, TRUE, FALSE, Counts(1, 1, NoDelta, 0))
    ELSE With(teardown(TRUE), LAMBDA t :
         With(saveConfig(file, mode, mask,
                         ConfigObject(JsString(email), JsString(password))), LAMBDA w :
         AuthRun(EndOfHandler, w.file, w.mode, t.client, TRUE,
                 Counts(1, 1, NoDelta, t.called))))

-----------------------------------------------------------------------------
(* A session: runs of the program, one after the other, on one machine.     *)
(* Every action is one process from start to exit; the config file, the     *)
(* environment and the account outlive it.                                  *)

AuthEmails == {<<>>, <<"a">>}
AuthPasswords == {<<>>, <<"b">>}
AuthFailures == {"none", "login", "fetch1"}

AuthArgs(isTTY, email, password, fail) ==
    [isTTY |-> isTTY, email |-> email, password |-> password, fail |-> fail]

\* the command lines of the commands run in a session; the commands are
\* those that leave the number of items as it is
SessionArgsOf(cmd) ==
    {a \in ArgsOf(cmd) :
        /\ a.fail \in {"none", "login"}
        /\ a.listName \in {<<>>, <<"g", "r">>, <<"x">>}
        /\ a.itemName \in {<<>>, <<"m", "i">>, <<"x">>}
        /\ ~a.uncheckedOnly}

InitSession ==
    /\ \E e \in CredentialEnvs : envEmail = e[1] /\ envPassword = e[2]
    /\ configFile \in PriorFiles
    /\ configMode = (IF configFile.exists THEN OwnerRW ELSE {})
    /\ umask = {"gw", "ow"}
    /\ lists = OneAccount
    /\ op = "init"
    /\ args = NoCommandArgs
    /\ ret = JsUndefined
    /\ exitCode = NoExit
    /\ clientInstance = FALSE
    /\ calls = NoCalls
    /\ before = lists
    /\ lastSaved = NoConfig
    /\ cleared = FALSE
    /\ libraryCredentials \in BOOLEAN

LogoutCommand ==
    /\ \E c \in {clearConfig(configFile, configMode, libraryCredentials)} :
        /\ configFile' = c.file
        /\ configMode' = c.mode
        /\ libraryCredentials' = c.library
        /\ ret' = c
    /\ cleared' = TRUE
    /\ lastSaved' = NoConfig
    /\ op' = "logout"
    /\ args' = NoCommandArgs
    /\ exitCode' = EndOfHandler
    /\ clientInstance' = FALSE
    /\ calls' = NoCalls
    /\ before' = lists
    /\ UNCHANGED <<envEmail, envPassword, umask, lists>>

WhoamiCommand ==
    /\ ret' = whoami(configFile)
    /\ op' = "whoami"
    /\ args' = NoCommandArgs
    /\ exitCode' = EndOfHandler
    /\ clientInstance' = FALSE
    /\ calls' = NoCalls
    /\ before' = lists
    /\ UNCHANGED <<envEmail, envPassword, configFile, configMode, umask, lists, lastSaved,
                   cleared, libraryCredentials>>

AuthCommand ==
    \E isTTY \in BOOLEAN, email \in AuthEmails, password \in AuthPasswords,
       fail \in AuthFailures :
      \E r \in {authCommand(isTTY, email, password, fail, configFile, configMode, umask)} :
        /\ configFile' = r.file
        /\ configMode' = r.mode
        /\ lastSaved' = (IF r.saved THEN ConfigObject(JsString(email), JsString(password))
                         ELSE lastSaved)
        /\ cleared' = (cleared /\ ~r.saved)
        /\ ret' = r
        /\ exitCode' = r.exit
        /\ clientInstance' = r.client
        /\ calls' = r.calls
        /\ op' = "auth"
        /\ args' = AuthArgs(isTTY, email, password, fail)
        /\ before' = lists
        /\ UNCHANGED <<envEmail, envPassword, umask, lists, libraryCredentials>>

\* the run r of the command cmd that needs credentials
SessionRun(cmd, a, r) ==
    /\ op' = cmd
    /\ args' = a
    /\ ret' = r
    /\ exitCode' = r.exit
    /\ lists' = r.remote
    /\ clientInstance' = r.client
    /\ calls' = r.calls
    /\ before' = lists
    /\ UNCHANGED <<envEmail, envPassword, configFile, configMode, umask, lastSaved,
                   cleared, libraryCredentials>>

ListsInSession ==
    \E a \in SessionArgsOf("lists") :
        SessionRun("lists", a, listsCommand(envEmail, envPassword, configFile, lists, a))

ListCommandInSession ==
    \E cmd \in {"items", "check", "uncheck"} :
        \E a \in SessionArgsOf(cmd) :
            SessionRun(cmd, a, listCommand(cmd, envEmail, envPassword, configFile, lists, a))

NextSession ==
    \/ LogoutCommand
    \/ WhoamiCommand
    \/ AuthCommand
    \/ ListsInSession
    \/ ListCommandInSession

SpecSession == InitSession /\ [][NextSession]_vars

-----------------------------------------------------------------------------
(* Properties of the credential store *)

EnvSet == Truthy(envEmail) /\ Truthy(envPassword)

\* C1: a loadConfig after saveConfig(c) returns an object whose email and
\* password are those of c and that has no other member, whatever the file
\* held before the save.
C1_SaveThenLoad ==
    (op = "loadConfig" /\ lastSaved # NoConfig) =>
        /\ ret.kind = "object"
        /\ DOMAIN ret.members = {KeyEmail, KeyPassword}
        /\ Member(ret, KeyEmail) = Member(lastSaved, KeyEmail)
        /\ Member(ret, KeyPassword) = Member(lastSaved, KeyPassword)

\* a load that follows a save of strings that JSON has to escape
C1_Witness ==
    /\ op = "loadConfig"
    /\ lastSaved # NoConfig
    /\ Member(ret, KeyEmail) = JsString(<<Quote>>)
    /\ Member(ret, KeyPassword) = JsString(<<Newline>>)

\* C2: with both variables set and non-empty requireConfig returns exactly
\* their values and does not exit; it returns what the file holds only when
\* one of them is missing or empty.
C2_EnvSupersedesFile ==
    op = "requireConfig" =>
        /\ EnvSet => (ret = ConfigObject(envEmail, envPassword) /\ exitCode = NoExit)
        /\ (~EnvSet /\ exitCode = NoExit) =>
              /\ ret = loadConfig(configFile)
              /\ Truthy(Member(ret, KeyEmail))
              /\ Truthy(Member(ret, KeyPassword))
        /\ (ret # ConfigObject(envEmail, envPassword) /\ exitCode = NoExit) => ~EnvSet

\* both variables set while the file holds other, usable credentials
C2_Witness ==
    /\ op = "requireConfig"
    /\ EnvSet
    /\ Truthy(Member(loadConfig(configFile), KeyEmail))
    /\ Truthy(Member(loadConfig(configFile), KeyPassword))
    /\ loadConfig(configFile) # ConfigObject(envEmail, envPassword)
    /\ ret = ConfigObject(envEmail, envPassword)

\* C8: after every saveConfig the file's mode is owner read/write only.
C8_ModeAfterSave ==
    op = "saveConfig" => configMode = OwnerRW

-----------------------------------------------------------------------------
(* Properties of the client functions *)

SameIgnoringCase(a, b) == toLowerCase(a) = toLowerCase(b)
ItemsBefore == before[1].items
ItemsAfter == lists[1].items

\* C3: findItemByName returns an item exactly when some item's name equals
\* the input ignoring case; the item returned has such a name, has exactly the
\* input's name when some item has, and the list is as it was.
C3_FindItemByName ==
    op = "findItemByName" =>
        /\ ret.found <=> \E k \in 1..Len(ItemsBefore) :
                            SameIgnoringCase(ItemsBefore[k].name, args.name)
        /\ ret.found <=> ret.count # 0
        /\ ret.found =>
              /\ ret.count \in 1..Len(ItemsBefore)
              /\ SameIgnoringCase(ItemsBefore[ret.count].name, args.name)
        /\ (\E k \in 1..Len(ItemsBefore) : ItemsBefore[k].name = args.name) =>
              ItemsBefore[ret.count].name = args.name
        /\ lists = before

\* the item with the input's exact name is returned although an earlier item
\* has it in another case
C3_Witness ==
    /\ op = "findItemByName"
    /\ ret.count = 2
    /\ ItemsBefore[2].name = args.name
    /\ ItemsBefore[1].name # args.name
    /\ SameIgnoringCase(ItemsBefore[1].name, args.name)

\* C4: when the fetches succeed getListByName returns a list exactly when
\* some list's name equals the input ignoring case: one with exactly the
\* input's name when there is one, else the first match in fetch order.
C4_GetListByName ==
    (op = "getListByName" /\ ~ret.threw) =>
        LET matches == {k \in 1..Len(lists) : SameIgnoringCase(lists[k].name, args.name)}
            exact == {k \in 1..Len(lists) : lists[k].name = args.name}
        IN  /\ ret.index # 0 <=> matches # {}
            /\ exact # {} => ret.index \in exact
            /\ (exact = {} /\ matches # {}) =>
                  /\ ret.index \in matches
                  /\ \A k \in matches : ret.index <= k

\* no list has the input's exact name, two have it in other cases, and the
\* first of them is returned
C4_Witness ==
    /\ op = "getListByName"
    /\ ~ret.threw
    /\ \A k \in 1..Len(lists) : lists[k].name # args.name
    /\ Len(lists) >= 2
    /\ SameIgnoringCase(lists[1].name, args.name)
    /\ SameIgnoringCase(lists[2].name, args.name)
    /\ lists[1].name # lists[2].name
    /\ ret.index = 1

\* C10: addItem with a name that matches an item ignoring case creates
\* nothing: the list keeps its length, one matching item ends unchecked with
\* quantity and category replaced only by non-empty arguments, every other
\* item is as it was, and save is called once if a field was assigned and
\* not at all otherwise.  With no match one item is created and handed to
\* list.addItem once, no save is made, and when that call succeeds the list
\* is the old list followed by the new item.
C10_AddItem ==
    op = "addItem" =>
        LET matches == {k \in 1..Len(ItemsBefore) :
                            SameIgnoringCase(ItemsBefore[k].name, args.name)}
        IN  IF matches # {} THEN
                /\ Len(ItemsAfter) = Len(ItemsBefore)
                /\ calls.createItem = 0
                /\ calls.addItem = 0
                /\ \E k \in matches :
                      LET old == ItemsBefore[k]
                          new == ItemsAfter[k]
                          assigned == old.checked \/ IsTruthy(args.quantity)
                                        \/ IsTruthy(args.categoryMatchId)
                                        \/ args.details # Undefined
                      IN  /\ ~new.checked
                          /\ new.name = old.name
                          /\ new.identifier = old.identifier
                          /\ new.quantity = IF IsTruthy(args.quantity)
                                            THEN args.quantity ELSE old.quantity
                          /\ new.categoryMatchId = IF IsTruthy(args.categoryMatchId)
                                                   THEN args.categoryMatchId
                                                   ELSE old.categoryMatchId
                          /\ calls.save = IF assigned THEN 1 ELSE 0
                          /\ \A j \in 1..Len(ItemsBefore) :
                                j # k => ItemsAfter[j] = ItemsBefore[j]
            ELSE
                /\ calls.createItem = 1
                /\ calls.addItem = 1
                /\ calls.save = 0
                /\ ret.threw => ItemsAfter = ItemsBefore
                /\ ~ret.threw =>
                      /\ Len(ItemsAfter) = Len(ItemsBefore) + 1
                      /\ SubSeq(ItemsAfter, 1, Len(ItemsBefore)) = ItemsBefore
                      /\ ItemsAfter[Len(ItemsAfter)].name = args.name
                      /\ ~ItemsAfter[Len(ItemsAfter)].checked

\* a checked item is added again under a name in another case, with a
\* quantity: it is unchecked, takes the quantity, and is saved once
C10_Witness ==
    /\ op = "addItem"
    /\ Len(ItemsBefore) = 2
    /\ Len(ItemsAfter) = 2
    /\ ItemsBefore[2].checked
    /\ ItemsBefore[2].name # args.name
    /\ SameIgnoringCase(ItemsBefore[2].name, args.name)
    /\ ~SameIgnoringCase(ItemsBefore[1].name, args.name)
    /\ args.quantity = "2"
    /\ ItemsAfter[2].quantity = "2"
    /\ ~ItemsAfter[2].checked
    /\ calls.save = 1

-----------------------------------------------------------------------------
(* Properties of the commands *)

Commands == {"lists", "items", "add", "check", "uncheck", "remove", "clear"}

\* no item was saved, created, added or removed, and the account is as it was
NothingChanged ==
    /\ calls.save = 0
    /\ calls.createItem = 0
    /\ calls.addItem = 0
    /\ calls.removeItem = 0
    /\ lists = before

\* the environment or the config file supplies an email and a password
CredentialsSupplied ==
    \/ EnvSet
    \/ /\ Truthy(Member(loadConfig(configFile), KeyEmail))
       /\ Truthy(Member(loadConfig(configFile), KeyPassword))

ListNameMatches ==
    \E k \in 1..Len(before) : SameIgnoringCase(before[k].name, args.listName)

ItemNameMatches ==
    /\ ret.listFound # 0
    /\ \E k \in 1..Len(before[ret.listFound].items) :
          SameIgnoringCase(before[ret.listFound].items[k].name, args.itemName)

\* C5: an add whose --category value, lower-cased, is no friendly name of the
\* category table exits with code 2 and creates or modifies nothing (stated
\* for the runs that logged in and found the list, and for non-empty values).
C5_UnknownCategoryRejected ==
    (/\ op = "add"
     /\ ret.listFound # 0
     /\ OptionGiven(args.category)
     /\ toLowerCase(args.category) \notin DOMAIN ANYLIST_CATEGORIES)
        => (exitCode = InvalidUsage /\ NothingChanged)

\* C6: after a successful login a list name that matches no list, and in
\* check, uncheck and remove an item name that matches no item of the list
\* found, end the run with code 1 and with nothing saved, added or removed.
C6_NotFound ==
    (op \in Commands /\ ret.loggedIn) =>
        /\ (op # "lists" /\ ~ListNameMatches) => (exitCode = Failure /\ NothingChanged)
        /\ (op \in {"check", "uncheck", "remove"} /\ ret.listFound # 0 /\ ~ItemNameMatches)
              => (exitCode = Failure /\ NothingChanged)

\* a remove that found the list but no item of that name
C6_Witness ==
    /\ op = "remove"
    /\ ret.loggedIn
    /\ ret.listFound # 0
    /\ before[ret.listFound].items # <<>>
    /\ ~ItemNameMatches
    /\ exitCode = Failure
    /\ calls.teardown = 1

\* C7: a command run without usable credentials, or whose login is rejected,
\* exits with code 3 without fetching lists and without changing anything
\* (a command is run when Commander accepted its command line).
C7_AuthFailure ==
    (/\ op \in Commands
     /\ UnknownOptions(op, args) = {}
     /\ (~CredentialsSupplied \/ args.fail = "login")) =>
        /\ exitCode = AuthFailure
        /\ calls.getLists = 0
        /\ NothingChanged

\* a check whose stored credentials the service rejects
C7_Witness ==
    /\ op = "check"
    /\ ~EnvSet
    /\ configFile = StoredFile
    /\ args.fail = "login"
    /\ calls.login = 1
    /\ exitCode = AuthFailure

\* C11: add with a list name, an item name and --notes <text> exits with
\* code 0 and the list then holds an item of that name whose details are the
\* text (stated for runs with usable credentials, an existing list, no
\* --category and no failing call).
C11_AddWithNotes ==
    (/\ op = "add"
     /\ args.notes # Undefined
     /\ args.category = NoOption
     /\ args.fail = "none"
     /\ CredentialsSupplied
     /\ ListNameMatches)
        => /\ exitCode = Success
           /\ \E k \in 1..Len(lists) :
                 /\ SameIgnoringCase(lists[k].name, args.listName)
                 /\ \E j \in 1..Len(lists[k].items) :
                       /\ SameIgnoringCase(lists[k].items[j].name, args.itemName)
                       /\ lists[k].items[j].details = args.notes

\* C9: every run that logged in calls the client's teardown before it ends.
C9_TeardownOnEveryPath ==
    (op \in Commands /\ ret.loggedIn) => (calls.teardown = 1 /\ ~clientInstance)

-----------------------------------------------------------------------------
(* Properties of a session *)

\* C12: once logout has run and until an auth stores credentials again,
\* loadConfig returns null, whoami reports not authenticated, and every
\* command that needs credentials, run without both environment variables,
\* exits with code 3; logout ends without error also when nothing was stored.
C12_AfterLogout ==
    /\ cleared =>
        /\ loadConfig(configFile) = JsNull
        /\ op = "whoami" => ~ret.authenticated
        /\ (op \in Commands /\ ~EnvSet) => exitCode = AuthFailure
    /\ op = "logout" => exitCode = Success

\* a check command run after a logout, with no credentials in the environment
C12_Witness ==
    /\ cleared
    /\ op = "check"
    /\ ~EnvSet
    /\ before # <<>>
    /\ exitCode = AuthFailure

-----------------------------------------------------------------------------
(* Properties of the output of items *)

Range(seq) == {seq[k] : k \in 1..Len(seq)}

\* C13: for every list and either value of --unchecked, the items of the JSON
\* output's items array and the items printed in text mode are the same set
\* of name, quantity and checked flag.
C13_JsonMirrorsText ==
    op = "items" =>
        {[name |-> i.name, quantity |-> i.quantity, checked |-> i.checked] :
            i \in Range(ret.json.items)}
        = {[name |-> l.name,
            quantity |-> IF l.qty = <<>> THEN "" ELSE l.qty[2],
            checked |-> l.mark = "check mark"] : l \in Range(ret.text)}

\* a list shown whole, with a checked item and an unchecked one that has a
\* quantity
C13_Witness ==
    /\ op = "items"
    /\ ~args.uncheckedOnly
    /\ \E l \in Range(ret.text) : l.mark = "check mark"
    /\ \E l \in Range(ret.text) : l.mark = "bullet" /\ l.qty # <<>>

-----------------------------------------------------------------------------
(* Properties of clearChecked, checkItem and uncheckItem *)

IsCheckedItem(i) == i.checked
IsUncheckedItem(i) == ~i.checked

\* C14: a clearChecked whose removals all succeed leaves exactly the items
\* that were unchecked, unchanged and in their order, and returns the number
\* of items that were checked, having called removeItem once for each (not at
\* all when none was checked).
C14_ClearChecked ==
    (op = "clearChecked" /\ ~ret.threw) =>
        /\ ItemsAfter = SelectSeq(ItemsBefore, IsUncheckedItem)
        /\ ret.count = Len(SelectSeq(ItemsBefore, IsCheckedItem))
        /\ calls.removeItem = ret.count

\* a clearChecked that removed a checked item and left an unchecked one
C14_Witness ==
    /\ op = "clearChecked"
    /\ ~ret.threw
    /\ ret.count >= 1
    /\ ItemsAfter # <<>>
    /\ Len(ItemsAfter) + ret.count = Len(ItemsBefore)

\* the same operation, and the opposite one, applied to the list as it is now
SameAgain ==
    IF op = "checkItem" THEN checkItem(ItemsAfter, args.name, 0)
    ELSE uncheckItem(ItemsAfter, args.name, 0)

\* C15: checkItem (uncheckItem) on a found item sets its checked flag to true
\* (false) and saves it once, leaving its other fields and every other item
\* as they were; applying it again leaves the list the same, and uncheckItem
\* after checkItem on the same name leaves the item unchecked.
C15_CheckUncheck ==
    (/\ op \in {"checkItem", "uncheckItem"}
     /\ findItemByName(ItemsBefore, args.name) # 0
     /\ ~ret.threw) =>
        LET i == findItemByName(ItemsBefore, args.name) IN
        /\ ret.found
        /\ ItemsAfter = [ItemsBefore EXCEPT ![i].checked = (op = "checkItem")]
        /\ calls.save = 1
        /\ calls.createItem = 0 /\ calls.addItem = 0 /\ calls.removeItem = 0
        /\ SameAgain.found /\ SameAgain.items = ItemsAfter
        /\ op = "checkItem" =>
              LET undone == uncheckItem(ItemsAfter, args.name, 0) IN
              /\ undone.found
              /\ undone.items = [ItemsBefore EXCEPT ![i].checked = FALSE]

\* a checkItem that checked the second of two items, found by another casing
C15_Witness ==
    /\ op = "checkItem"
    /\ ~ret.threw
    /\ Len(ItemsBefore) = 2
    /\ findItemByName(ItemsBefore, args.name) = 2
    /\ ItemsBefore[2].name # args.name
    /\ ~ItemsBefore[2].checked
    /\ ItemsAfter[2].checked

-----------------------------------------------------------------------------
(* Properties of auth and whoami *)

\* C16: an auth run without a TTY or with an empty email or password exits
\* with code 2, one whose login or list fetch fails exits with code 3, and
\* both leave the config file as it was (or absent); the file changes only
\* in a run that logged in and fetched the lists.
C16_AuthWritesOnlyOnSuccess ==
    [][op' = "auth" =>
        /\ (~args'.isTTY \/ args'.email = <<>> \/ args'.password = <<>>) =>
              /\ exitCode' = InvalidUsage
              /\ configFile' = configFile /\ configMode' = configMode
        /\ (/\ args'.isTTY /\ args'.email # <<>> /\ args'.password # <<>>
            /\ args'.fail \in {"login", "fetch1"}) =>
              /\ exitCode' = AuthFailure
              /\ configFile' = configFile /\ configMode' = configMode
        /\ (configFile' # configFile) =>
              /\ args'.fail = "none"
              /\ calls'.login = 1 /\ calls'.getLists = 1
              /\ loadConfig(configFile')
                    = ConfigObject(JsString(args'.email), JsString(args'.password))
      ]_vars

\* an auth run whose list fetch failed after a good login, with credentials
\* stored before
C16_Witness ==
    /\ op = "auth"
    /\ args.isTTY
    /\ args.fail = "fetch1"
    /\ calls.login = 1 /\ calls.getLists = 1
    /\ exitCode = AuthFailure
    /\ configFile = StoredFile

\* C17: whoami reports authenticated exactly when requireConfig, in the same
\* state of the config file and the environment, returns credentials.
C17_WhoamiAgreesWithRequireConfig ==
    op = "whoami" =>
        (ret.authenticated
            <=> requireConfig(envEmail, envPassword, configFile).exit = NoExit)

====
